---- MODULE Spec2Model ----
(***************************************************************************)
(* Writing Improvement App: the sentence store (WritingAppModel), the      *)
(* parts of the view the handlers read and write (WritingAppView) and the  *)
(* five UI handlers of WritingAppController, each as one atomic action.    *)
(*                                                                         *)
(* Text is a sequence of one-character strings, so that str.strip() is a   *)
(* real computation.  An optional value (Python None / SQL NULL) is a set  *)
(* with at most one element: {} is None, {v} is the value v.               *)
(*                                                                         *)
(* Every method of WritingAppModel opens its own connection inside         *)
(* `with sqlite3.connect(...)`: what it writes is committed when it        *)
(* returns and rolled back when it raises.  The actions named ...Fault are *)
(* the handlers in which one such call raises (a locked or unavailable     *)
(* database file); Spec has them, SpecOK has not.                          *)
(***************************************************************************)
EXTENDS Integers, Sequences, FiniteSets, TLC

\* ------------------------------------------------------------------ bounds
\* Largest number of data rows in an imported CSV file.
MaxRows == 2

\* ------------------------------------------------------------------ text
None == {}
Some(v) == {v}
TheValue(o) == CHOOSE v \in o : TRUE

\* Characters str.strip() removes.
Whitespace == {" ", "\n"}

RECURSIVE lstrip(_)
lstrip(s) ==
    IF s = <<>> THEN <<>>
    ELSE IF Head(s) \in Whitespace THEN lstrip(Tail(s))
    ELSE s

RECURSIVE rstrip(_)
rstrip(s) ==
    IF s = <<>> THEN <<>>
    ELSE IF s[Len(s)] \in Whitespace THEN rstrip(SubSeq(s, 1, Len(s) - 1))
    ELSE s

\* str.strip()
strip(s) == rstrip(lstrip(s))

\* ------------------------------------------------------------------ inputs
\* Raw text of the 'sentence' field of one CSV line.
CellTexts ==
    { <<>>, <<" ">>, <<" ", "a">> }

\* A CSV file: its header and the raw 'sentence' field of each data line.
\* header is "other" when no column is named 'sentence' (the lines then play
\* no part), "sentence" when that is the sole column and "sentence,note"
\* when a second column follows it.
CsvFiles ==
    [ header : { "other" }, lines : { << >> } ]
    \cup [ header : { "sentence", "sentence,note" },
           lines : UNION { [1..n -> CellTexts] : n \in 0..MaxRows } ]

\* Contents the user can give the rewrite widget.
Typed == { <<>>, <<" ">>, <<"x">> }

\* ------------------------------------------------------------------ pandas
\* Field texts pandas.read_csv turns into NaN (its default na_values);
\* these are the ones CellTexts can spell.
NaValues == { <<>> }

NaN == None

\* pd.read_csv: the values of df['sentence'], one per row of the frame.
\* A line that is blank is dropped (skip_blank_lines) -- a line can only be
\* blank when 'sentence' is the sole column; an NA field becomes NaN and any
\* other field keeps its text, surrounding spaces included.
read_csv(f) ==
    LET kept == SelectSeq(f.lines,
                    LAMBDA t : f.header = "sentence,note" \/ strip(t) # <<>>)
    IN  [ i \in 1..Len(kept) |->
            IF kept[i] \in NaValues THEN NaN ELSE Some(kept[i]) ]

\* str(row['sentence']): str(float('nan')) is 'nan'.
str(v) == IF v = NaN THEN <<"n", "a", "n">> ELSE TheValue(v)

\* ------------------------------------------------------------------ store
CURRENT_TIMESTAMP == "CURRENT_TIMESTAMP"

\* SELECT id FROM sentences WHERE original = ?  (fetchone)
select_by_original(rows, sentence) ==
    { rows[i].id : i \in { j \in DOMAIN rows : rows[j].original = sentence } }

\* INSERT INTO sentences (original) VALUES (?) with the column defaults of
\* the schema; INTEGER PRIMARY KEY gives the largest id plus one.
insert(rows, sentence) ==
    Append(rows,
        [ id         |-> Len(rows) + 1,
          original   |-> sentence,
          rewrite    |-> None,
          seen       |-> FALSE,
          created_at |-> CURRENT_TIMESTAMP,
          updated_at |-> None ])

\* The body of the row loop of import_csv for one row.
import_row(st, v) ==
    LET sentence == strip(str(v))
    IN  IF sentence = <<>> THEN st
        ELSE IF select_by_original(st.rows, sentence) = {}
             THEN [ rows |-> insert(st.rows, sentence),
                    imported_count |-> st.imported_count + 1 ]
             ELSE st

\* The row loop of import_csv over the first n rows of the frame.
RECURSIVE import_rows(_, _, _)
import_rows(rows, values, n) ==
    IF n = 0 THEN [ rows |-> rows, imported_count |-> 0 ]
    ELSE import_row(import_rows(rows, values, n - 1), values[n])

\* Mutant of rollback: every statement is committed as it is executed.
rollback_keeps_inserted(before, working) == working

\* Leaving 'with sqlite3.connect(...) as conn' by an exception rolls the
\* open transaction back: the table is what it was before the call.
rollback(before, working) == before

\* Mutant of get_random_unseen_sentence: the WHERE seen = 0 is missing.
get_random_any_sentence(rows) ==
    IF rows = << >> THEN { None }
    ELSE { Some(<<rows[i].id, rows[i].original>>) : i \in DOMAIN rows }

\* SELECT id, original FROM sentences WHERE seen = 0 ORDER BY RANDOM()
\* LIMIT 1: the set of results fetchone() can give.
get_random_unseen_sentence(rows) ==
    LET unseen == { i \in DOMAIN rows : ~rows[i].seen }
    IN  IF unseen = {} THEN { None }
        ELSE { Some(<<rows[i].id, rows[i].original>>) : i \in unseen }

\* Mutant of mark_sentence_seen: the update sets updated_at alone.
mark_sentence_seen_timestamp_only(rows, sentence_id) ==
    [ i \in DOMAIN rows |->
        IF rows[i].id = sentence_id
        THEN [ rows[i] EXCEPT !.updated_at = Some(CURRENT_TIMESTAMP) ]
        ELSE rows[i] ]

\* Mutant of mark_sentence_seen: the WHERE id = ? is missing.
mark_sentence_seen_every_row(rows, sentence_id) ==
    [ i \in DOMAIN rows |->
        [ rows[i] EXCEPT !.seen = TRUE,
                         !.updated_at = Some(CURRENT_TIMESTAMP) ] ]

\* UPDATE sentences SET seen = 1, updated_at = CURRENT_TIMESTAMP WHERE id = ?
mark_sentence_seen(rows, sentence_id) ==
    [ i \in DOMAIN rows |->
        IF rows[i].id = sentence_id
        THEN [ rows[i] EXCEPT !.seen = TRUE,
                              !.updated_at = Some(CURRENT_TIMESTAMP) ]
        ELSE rows[i] ]

\* UPDATE sentences SET rewrite = ?, updated_at = CURRENT_TIMESTAMP
\* WHERE id = ?
save_rewrite(rows, sentence_id, rewrite) ==
    [ i \in DOMAIN rows |->
        IF rows[i].id = sentence_id
        THEN [ rows[i] EXCEPT !.rewrite = Some(rewrite),
                              !.updated_at = Some(CURRENT_TIMESTAMP) ]
        ELSE rows[i] ]

\* SELECT COUNT(*) FROM sentences
count_total(rows) == Len(rows)

\* SELECT COUNT(*) FROM sentences WHERE rewrite IS NOT NULL
count_completed(rows) == Len(SelectSeq(rows, LAMBDA r : r.rewrite # None))

\* Mutant of get_progress_stats: the pair is returned completed first.
get_progress_stats_completed_first(rows) ==
    << count_completed(rows), count_total(rows) >>

\* Returns the pair in the order of its docstring and of its return
\* statement: total first.
get_progress_stats(rows) ==
    LET total == count_total(rows)
        completed == count_completed(rows)
    IN  <<total, completed>>

\* The rows written by df.to_csv, in row order.
export_rewrites_to_csv(rows) ==
    LET done == SelectSeq(rows, LAMBDA r : r.rewrite # None)
    IN  [ i \in 1..Len(done) |->
            <<done[i].id, done[i].original, done[i].rewrite,
              done[i].created_at, done[i].updated_at>> ]

\* Mutant of reset_session: the update does not clear the rewrites.
reset_session_keeps_rewrite(rows) ==
    [ i \in DOMAIN rows |->
        [ rows[i] EXCEPT !.seen = FALSE, !.updated_at = None ] ]

\* UPDATE sentences SET seen = 0, rewrite = NULL, updated_at = NULL
reset_session(rows) ==
    [ i \in DOMAIN rows |->
        [ rows[i] EXCEPT !.seen = FALSE, !.rewrite = None, !.updated_at = None ] ]

\* ------------------------------------------------------------------ state
VARIABLES
    db,                     \* the sentences table, in id order
    current_sentence_id,    \* controller: None or Some(id)
    current_sentence_text,  \* controller: None or Some(text)
    sentence_text,          \* view: the text shown in the sentence widget
    rewrite_text,           \* view: the content of the rewrite widget
    progress_label,         \* view: <<completed, total>> as displayed
    dialog,                 \* view: the message box shown by the last handler
    export_file,            \* Some(rows) the last handler wrote to the export
                            \*   path, None when it wrote no file
    lastOp,                 \* observation: what the last handler did
    fetched                 \* observation: Some(result) of the call of
                            \*   get_random_unseen_sentence in the last handler

vars == << db, current_sentence_id, current_sentence_text, sentence_text,
           rewrite_text, progress_label, dialog, export_file, lastOp,
           fetched >>

current_vars == << current_sentence_id, current_sentence_text >>

NoMoreSentences ==
    << "No more sentences to practice! Import more or reset the session." >>

NoDialog == << "none", "" >>
showinfo(title) == << "info", title >>
showerror(title) == << "error", title >>

Op(op, outcome, raised) ==
    [ op |-> op, outcome |-> outcome, raised |-> raised,
      imported_count |-> None, partial |-> 0 ]

Unseen(rows) == { rows[i].id : i \in { j \in DOMAIN rows : ~rows[j].seen } }

\* Mutant of get_rewrite_text: the text is not stripped.
get_rewrite_text_unstripped(box) == box

\* WritingAppView.get_rewrite_text: Text.get(1.0, END) is the content plus
\* the newline the widget ends with; the result is stripped.
get_rewrite_text(box) == strip(box \o << "\n" >>)

\* WritingAppView.update_progress(completed, total)
update_progress(completed, total) == << completed, total >>

\* ------------------------------------------------------------------ controller
\* _load_next_sentence on the table `rows`; `fault` is the call that raises.
load_next_sentence(rows, fault) ==
    IF fault = "get_random_unseen_sentence"
    THEN /\ fetched' = None
         /\ UNCHANGED << current_vars, sentence_text, progress_label >>
    ELSE \E r \in get_random_unseen_sentence(rows) :
         /\ fetched' = Some(r)
         /\ IF r # None
            THEN /\ current_sentence_id' = Some(TheValue(r)[1])
                 /\ current_sentence_text' = Some(TheValue(r)[2])
                 /\ sentence_text' = TheValue(r)[2]
            ELSE /\ current_sentence_id' = None
                 /\ current_sentence_text' = None
                 /\ sentence_text' = NoMoreSentences
         /\ LET stats == get_progress_stats(rows)
                total == stats[1]
                completed == stats[2]
            IN  progress_label' = update_progress(completed, total)

\* The call of _load_next_sentence that may raise.  Its last call,
\* get_progress_stats, reads the table only to refresh the label and is
\* taken to succeed.
LoadFaults == { "get_random_unseen_sentence" }

\* The handler did not reach _load_next_sentence.
not_loaded ==
    /\ fetched' = None
    /\ UNCHANGED << current_vars, sentence_text, progress_label >>

\* WritingAppController.__init__ on a new database file.
Init ==
    /\ db = << >>
    /\ current_sentence_id = None
    /\ current_sentence_text = None
    /\ sentence_text = NoMoreSentences
    /\ rewrite_text = << >>
    /\ progress_label = update_progress(0, 0)
    /\ dialog = NoDialog
    /\ export_file = None
    /\ lastOp = Op("init", "done", "none")
    /\ fetched = Some(None)

\* The handler returns, or a call raises, before anything was written.
nothing_written(fault) ==
    /\ not_loaded
    /\ export_file' = None
    /\ UNCHANGED db

\* _handle_import.  `path` is what the file dialog returns, `fault` the call
\* that raises ("none": no call does) and `at` the row of the frame at which
\* import_csv raises (one past the last row: its commit raises).
handle_import(path, fault, at) ==
    IF path = None
    THEN \* the dialog was cancelled: `if file_path:` skips the handler's body
         UNCHANGED vars
    ELSE
    LET f == TheValue(path)
        values == read_csv(f)
    IN  IF f.header = "other"
        THEN \* ValueError: CSV must contain a 'sentence' column
             /\ lastOp' = Op("import", "error_shown", "ValueError")
             /\ dialog' = showerror("Import Failed")
             /\ nothing_written(fault)
             /\ UNCHANGED rewrite_text
        ELSE IF fault = "import_csv"
        THEN LET working == import_rows(db, values, at - 1)
             IN  /\ db' = rollback(db, working.rows)
                 /\ lastOp' = [ Op("import", "error_shown", fault)
                                  EXCEPT !.partial = working.imported_count ]
                 /\ dialog' = showerror("Import Failed")
                 /\ not_loaded
                 /\ export_file' = None
                 /\ UNCHANGED rewrite_text
        ELSE LET done == import_rows(db, values, Len(values))
             IN  /\ db' = done.rows
                 /\ lastOp' = [ Op("import",
                                   IF fault = "none" THEN "done" ELSE "error_shown",
                                   fault)
                                  EXCEPT !.imported_count = Some(done.imported_count) ]
                 /\ dialog' = IF fault = "none"
                              THEN showinfo("Import Successful")
                              ELSE showerror("Import Failed")
                 /\ load_next_sentence(done.rows, fault)
                 /\ export_file' = None
                 /\ UNCHANGED rewrite_text

Import ==
    \E path \in { None } \cup { Some(f) : f \in CsvFiles } :
        handle_import(path, "none", 0)

ImportFault ==
    \E f \in CsvFiles, fault \in { "import_csv" } \cup LoadFaults,
       at \in 0..(MaxRows + 1) :
        /\ f.header # "other"
        /\ IF fault = "import_csv"
           THEN at \in 1..(Len(read_csv(f)) + 1)
           ELSE at = 0
        /\ handle_import(Some(f), fault, at)

\* _handle_save.  `typed` is the content of the rewrite widget when the
\* button is pressed: what the user has made of it since the last handler.
handle_save(typed, fault) ==
    IF current_sentence_id = None
    THEN /\ lastOp' = Op("save", "no_current", "none")
         /\ dialog' = NoDialog
         /\ nothing_written(fault)
         /\ rewrite_text' = typed
    ELSE
    LET id == TheValue(current_sentence_id)
        rewrite == get_rewrite_text(typed)
    IN  IF rewrite = << >>
        THEN /\ lastOp' = Op("save", "validation_error", "none")
             /\ dialog' = showerror("Error")
             /\ nothing_written(fault)
             /\ rewrite_text' = typed
        ELSE IF fault = "save_rewrite"
        THEN /\ lastOp' = Op("save", "error_shown", fault)
             /\ dialog' = showerror("Save Failed")
             /\ nothing_written(fault)
             /\ rewrite_text' = typed
        ELSE IF fault = "mark_sentence_seen"
        THEN /\ db' = save_rewrite(db, id, rewrite)
             /\ lastOp' = Op("save", "error_shown", fault)
             /\ dialog' = showerror("Save Failed")
             /\ not_loaded
             /\ export_file' = None
             /\ rewrite_text' = typed
        ELSE LET rows == mark_sentence_seen(save_rewrite(db, id, rewrite), id)
             IN  /\ db' = rows
                 /\ rewrite_text' = << >>
                 /\ load_next_sentence(rows, fault)
                 /\ lastOp' = Op("save",
                                 IF fault = "none" THEN "done" ELSE "error_shown",
                                 fault)
                 /\ dialog' = IF fault = "none" THEN NoDialog
                              ELSE showerror("Save Failed")
                 /\ export_file' = None

Save == \E typed \in Typed : handle_save(typed, "none")

SaveFault ==
    \E typed \in Typed,
       fault \in { "save_rewrite", "mark_sentence_seen" } \cup LoadFaults :
        /\ current_sentence_id # None
        /\ get_rewrite_text(typed) # << >>
        /\ handle_save(typed, fault)

\* _handle_skip.  Nothing catches what its calls raise.
handle_skip(fault) ==
    IF current_sentence_id = None
    THEN /\ lastOp' = Op("skip", "no_current", "none")
         /\ dialog' = NoDialog
         /\ nothing_written(fault)
         /\ UNCHANGED rewrite_text
    ELSE
    LET id == TheValue(current_sentence_id)
    IN  IF fault = "mark_sentence_seen"
        THEN /\ lastOp' = Op("skip", "uncaught", fault)
             /\ dialog' = NoDialog
             /\ nothing_written(fault)
             /\ UNCHANGED rewrite_text
        ELSE LET rows == mark_sentence_seen(db, id)
             IN  /\ db' = rows
                 /\ rewrite_text' = << >>
                 /\ load_next_sentence(rows, fault)
                 /\ lastOp' = Op("skip",
                                 IF fault = "none" THEN "done" ELSE "uncaught",
                                 fault)
                 /\ dialog' = NoDialog
                 /\ export_file' = None

Skip == handle_skip("none")

SkipFault ==
    \E fault \in { "mark_sentence_seen" } \cup LoadFaults :
        /\ current_sentence_id # None
        /\ handle_skip(fault)

\* _handle_export.  `chosen` is whether the file dialog returned a path.
handle_export(chosen, fault) ==
    IF ~chosen
    THEN \* the dialog was cancelled: `if file_path:` skips the handler's body
         UNCHANGED vars
    ELSE IF fault = "export_rewrites_to_csv"
    THEN /\ lastOp' = Op("export", "error_shown", fault)
         /\ dialog' = showerror("Export Failed")
         /\ nothing_written(fault)
         /\ UNCHANGED rewrite_text
    ELSE /\ export_file' = Some(export_rewrites_to_csv(db))
         /\ lastOp' = Op("export", "done", "none")
         /\ dialog' = showinfo("Export Successful")
         /\ not_loaded
         /\ UNCHANGED << db, rewrite_text >>

Export == \E chosen \in BOOLEAN : handle_export(chosen, "none")

ExportFault == handle_export(TRUE, "export_rewrites_to_csv")

\* _handle_reset.  `yes` is the answer to the confirmation; nothing catches
\* what its calls raise.
handle_reset(yes, fault) ==
    IF ~yes
    THEN \* the answer was no: the handler's body is skipped
         UNCHANGED vars
    ELSE IF fault = "reset_session"
    THEN /\ lastOp' = Op("reset", "uncaught", fault)
         /\ dialog' = NoDialog
         /\ nothing_written(fault)
         /\ UNCHANGED rewrite_text
    ELSE LET rows == reset_session(db)
         IN  /\ db' = rows
             /\ rewrite_text' = << >>
             /\ load_next_sentence(rows, fault)
             /\ lastOp' = Op("reset",
                             IF fault = "none" THEN "done" ELSE "uncaught",
                             fault)
             /\ dialog' = NoDialog
             /\ export_file' = None

Reset == \E yes \in BOOLEAN : handle_reset(yes, "none")

ResetFault ==
    \E fault \in { "reset_session" } \cup LoadFaults : handle_reset(TRUE, fault)

\* ------------------------------------------------------------------ specifications
\* Every storage call succeeds.
NextOK == Import \/ Save \/ Skip \/ Export \/ Reset

\* A storage call of the handler may raise.
NextFault == ImportFault \/ SaveFault \/ SkipFault \/ ExportFault \/ ResetFault

Next == NextOK \/ NextFault

Spec == Init /\ [][Next]_vars

SpecOK == Init /\ [][NextOK]_vars

TypeOK ==
    /\ \A i \in DOMAIN db : db[i].id = i
    /\ current_sentence_id \in { None } \cup { Some(i) : i \in DOMAIN db }

\* ------------------------------------------------------------------ properties
Completed(rows) == { i \in DOMAIN rows : rows[i].rewrite # None }
IdOriginal(rows) == { << rows[i].id, rows[i].original >> : i \in DOMAIN rows }
Originals(rows) == { rows[i].original : i \in DOMAIN rows }

\* The last handler was `op` and ran past its dialog.
Ran(op) == lastOp'.op = op

\* C1 (no-repeat).  A record that is seen stays seen through every handler
\* but a reset, and the call of get_random_unseen_sentence such a handler
\* makes does not return it: once marked by a save or a skip, a record is
\* not returned again until reset_session.
NoRepeat ==
    [][ \A i \in DOMAIN db :
            (db[i].seen /\ ~Ran("reset"))
                => /\ db'[i].seen
                   /\ fetched' # Some(Some(<< db[i].id, db[i].original >>)) ]_vars

\* A save or skip has marked a record and the next sentence fetched is
\* another, unseen record.
NoRepeatWitness ==
    /\ lastOp.op \in { "save", "skip" }
    /\ \E i, j \in DOMAIN db :
        /\ db[i].seen
        /\ ~db[j].seen
        /\ fetched = Some(Some(<< db[j].id, db[j].original >>))

\* C2 (reset restores the pool).  After a reset whose reset_session
\* completed, no record is completed, the total is what it was, every record
\* is unseen and can be returned by get_random_unseen_sentence, and the
\* (id, original) pairs are those from before.
ResetRestores ==
    [][ (Ran("reset") /\ lastOp'.raised # "reset_session")
            => /\ get_progress_stats(db')[2] = 0
               /\ get_progress_stats(db')[1] = get_progress_stats(db)[1]
               /\ Completed(db') = {}
               /\ \A i \in DOMAIN db' : ~db'[i].seen
               /\ IdOriginal(db') = IdOriginal(db)
               /\ db' # << >> =>
                    get_random_unseen_sentence(db')
                        = { Some(p) : p \in IdOriginal(db) } ]_vars

\* A reset has run on a table of two records.
ResetRestoresWitness ==
    /\ lastOp.op = "reset"
    /\ lastOp.raised = "none"
    /\ Len(db) = 2
    /\ fetched # None

\* C3 (duplicate suppression).  No two records have the same original and
\* none has an empty one; an import that returns gives the number of distinct
\* non-blank trimmed values of the sentence column that the table did not
\* hold, and the table grows by that number.
NewValues(rows, f) ==
    ({ strip(f.lines[i]) : i \in DOMAIN f.lines } \ { << >> }) \ Originals(rows)

DuplicateSuppression ==
    /\ [](\A i, j \in DOMAIN db :
            /\ db[i].original # << >>
            /\ db[i].original = db[j].original => i = j)
    /\ [][ \A f \in CsvFiles :
            (f.header # "other" /\ handle_import(Some(f), "none", 0))
                => /\ lastOp'.imported_count = Some(Cardinality(NewValues(db, f)))
                   /\ Len(db') = Len(db) + Cardinality(NewValues(db, f)) ]_vars

\* Empty or whitespace-only text.
Blank(t) == \A i \in DOMAIN t : t[i] \in Whitespace

\* C4 (validation).  A save of blank text for the current sentence shows the
\* validation error and leaves the table and the current sentence alone.
Validation ==
    [][ \A t \in Typed :
            (current_sentence_id # None /\ Blank(t) /\ handle_save(t, "none"))
                => /\ dialog' = showerror("Error")
                   /\ db' = db
                   /\ UNCHANGED current_vars ]_vars

\* A whitespace-only rewrite was refused while a sentence was current.
ValidationWitness ==
    /\ lastOp.op = "save"
    /\ current_sentence_id # None
    /\ rewrite_text = << " " >>
    /\ dialog = showerror("Error")

\* C5 as stated (partial success).  When import_csv raises after rows of the
\* call were inserted, those rows are in the table afterwards.
PartialSuccess ==
    [][ (Ran("import") /\ lastOp'.raised = "import_csv" /\ lastOp'.partial > 0)
            => Len(db') = Len(db) + lastOp'.partial ]_vars

\* C5 as amended.  When import_csv raises after rows of the call were
\* inserted, the table is exactly what it was before the call.
ImportRollsBack ==
    [][ (Ran("import") /\ lastOp'.raised = "import_csv" /\ lastOp'.partial > 0)
            => db' = db ]_vars

\* import_csv raised after it had inserted a row.
ImportRollsBackWitness ==
    /\ lastOp.op = "import"
    /\ lastOp.raised = "import_csv"
    /\ lastOp.partial > 0

SubmitOrdering ==
    [][ \A t \in Typed,
           fault \in { "none", "save_rewrite", "mark_sentence_seen" } \cup LoadFaults :
            (current_sentence_id # None /\ ~Blank(t) /\ handle_save(t, fault))
                => LET id == TheValue(current_sentence_id)
                   IN  IF fault = "save_rewrite"
                       THEN /\ db' = db
                            /\ dialog' = showerror("Save Failed")
                       ELSE IF fault = "mark_sentence_seen"
                       THEN /\ db'[id].rewrite = Some(strip(t))
                            /\ ~db'[id].seen
                            /\ dialog' = showerror("Save Failed")
                       ELSE /\ db'[id].rewrite = Some(strip(t))
                            /\ db'[id].seen ]_vars

\* C8 as stated (rewrite implies processed).
RewriteImpliesSeen ==
    \A i \in DOMAIN db : db[i].rewrite # None => db[i].seen

\* C8 as amended.  A record has a rewrite and seen = false only from a save
\* whose mark_sentence_seen raised after save_rewrite had stored the
\* rewrite; every other record with a rewrite has seen = true.
RewriteImpliesSeenUnlessMarkRaised ==
    [][ \A i \in DOMAIN db' :
            (db'[i].rewrite # None /\ ~db'[i].seen)
                => \/ /\ i \in DOMAIN db
                      /\ db[i].rewrite # None
                      /\ ~db[i].seen
                   \/ /\ Ran("save")
                      /\ lastOp'.raised = "mark_sentence_seen"
                      /\ current_sentence_id = Some(i) ]_vars

\* A save stored the rewrite and mark_sentence_seen raised, while another
\* record is both completed and seen.
RewriteImpliesSeenWitness ==
    /\ lastOp.op = "save"
    /\ lastOp.raised = "mark_sentence_seen"
    /\ \E i, j \in DOMAIN db :
        /\ db[i].rewrite # None /\ ~db[i].seen
        /\ db[j].rewrite # None /\ db[j].seen

\* C9 (current sentence).  current_sentence_id is None or the id of a record
\* with seen = false.
CurrentIsUnseen ==
    \/ current_sentence_id = None
    \/ \E i \in DOMAIN db : current_sentence_id = Some(db[i].id) /\ ~db[i].seen

\* C10 (pool exhaustion), when every storage call succeeds.  A save or skip
\* that runs lowers the number of unseen records by one; the controller has
\* no current sentence exactly when no record is unseen, hence after as many
\* such steps as there were unseen records; without a current sentence save
\* and skip change nothing; get_random_unseen_sentence returns none exactly
\* when no record is unseen.
PoolExhaustion ==
    /\ [][ (lastOp'.op \in { "save", "skip" } /\ lastOp'.outcome = "done")
              => Cardinality(Unseen(db')) = Cardinality(Unseen(db)) - 1 ]_vars
    /\ [](current_sentence_id = None <=> Unseen(db) = {})
    /\ [][ (current_sentence_id = None /\ lastOp'.op \in { "save", "skip" })
              => UNCHANGED << db, current_vars, sentence_text, progress_label >> ]_vars
    /\ [](fetched # None => (fetched = Some(None) <=> Unseen(db) = {}))

\* Two records were imported and both were worked off: nothing is current.
PoolExhaustionWitness ==
    /\ lastOp.op \in { "save", "skip" }
    /\ lastOp.outcome = "done"
    /\ Len(db) = 2
    /\ Unseen(db) = {}
    /\ current_sentence_id = None

====
